---- MODULE Spec2Model ----
(***************************************************************************)
(* Model of the local cache database of wiktionary-cli                     *)
(* (src/services/db.py, class Database): two SQLite tables, Pages and      *)
(* Searches, the configuration flags that gate reads and writes, and the   *)
(* time-based expiration of saved pages.                                   *)
(*                                                                         *)
(* Time is counted in whole seconds.  DATETIME('now', 'localtime') stores  *)
(* a timestamp with a resolution of one second, and timedelta.seconds is   *)
(* an integer, so fractions of a second never decide a comparison.         *)
(***************************************************************************)
EXTENDS Integers, Sequences, FiniteSets, TLC

\* ---------------------------------------------------------------- bounds
MaxSearches == 2          \* most rows the Searches table holds in the model

Names == {"A", "B"}       \* page titles
Contents == {"c1", "c2"}  \* page texts
Texts == {"q1", "q2"}     \* search strings

\* ------------------------------------------------------------- constants
SecondsPerDay == 86400    \* timedelta normalises to 0 <= seconds < 86400

\* cfg_parser.expiration_time_to_seconds(config.DB_PAGE_EXPIRATION_TIME),
\* for the duration string "2h"
expiration_time == 7200

\* instants at which the clock is observed: the start, the expiration
\* threshold after it, and one day after it.  The ages they give are the
\* threshold itself, one day, and one day less the threshold.
ClockInstants == {0, expiration_time, SecondsPerDay}

\* the limits passed to the fetch operations
Limits == {-1, 0, 1, 2}

VARIABLES
    Pages,               \* table Pages: rows in insertion order
    Searches,            \* table Searches: rows in insertion order
    now,                 \* the local clock, in seconds
    ret,                 \* the last call: operation, arguments, outcome
    lastSaved            \* history: per page title, <<text, instant>> of the
                         \* latest save_page that was not gated off, else <<>>

vars == <<Pages, Searches, now, ret, lastSaved>>

\* ------------------------------------------------------- call outcomes
\* arg:    the arguments of the call
\* cfg:    <<b>> when the call read the value b of its config flag, else <<>>
\* status: "None" (returned None), "value" (returned val),
\*         or the name of the exception raised
Returned(op, arg, cfg, val) ==
    [op |-> op, arg |-> arg, cfg |-> cfg, status |-> "value", val |-> val]
ReturnedNone(op, arg, cfg) ==
    [op |-> op, arg |-> arg, cfg |-> cfg, status |-> "None", val |-> <<>>]
Raised(op, arg, cfg, exc) ==
    [op |-> op, arg |-> arg, cfg |-> cfg, status |-> exc, val |-> <<>>]

\* ------------------------------------------------------ SQLite helpers
\* DATETIME('now', 'localtime'): the text 'YYYY-MM-DD HH:MM:SS', kept as
\* the pair <<day, second of the day>>
DATETIME_now == <<now \div SecondsPerDay, now % SecondsPerDay>>

\* datetime.fromisoformat of a stored timestamp
fromisoformat(s) == s[1] * SecondsPerDay + s[2]

RowIds(table) == { table[i].id : i \in 1..Len(table) }

\* INTEGER PRIMARY KEY of an inserted row: one more than the largest id
\* in the table, 1 in an empty table
NextRowid(table) ==
    IF table = <<>> THEN 1
    ELSE (CHOOSE m \in RowIds(table) : \A k \in RowIds(table) : k <= m) + 1

\* the index of the row with the smallest id
MinIdIndex(table) ==
    CHOOSE i \in 1..Len(table) : \A j \in 1..Len(table) : table[i].id <= table[j].id

RemoveAt(s, i) == SubSeq(s, 1, i - 1) \o SubSeq(s, i + 1, Len(s))

RECURSIVE OrderByIdAsc(_)
OrderByIdAsc(table) ==
    IF table = <<>> THEN <<>>
    ELSE LET i == MinIdIndex(table)
         IN  <<table[i]>> \o OrderByIdAsc(RemoveAt(table, i))

Reverse(s) == [i \in 1..Len(s) |-> s[Len(s) + 1 - i]]

OrderByIdDesc(table) == Reverse(OrderByIdAsc(table))

\* LIMIT n
LimitRows(rows, n) == SubSeq(rows, 1, IF n < Len(rows) THEN n ELSE Len(rows))

\* SELECT ... WHERE name = ? ... fetchone(): <<>> when there is no row
SelectByName(name) == SelectSeq(Pages, LAMBDA r : r.name = name)

TypeOK ==
    /\ now \in ClockInstants
    /\ Len(Searches) <= MaxSearches
    /\ \A i \in 1..Len(Pages) : Pages[i].name \in Names /\ Pages[i].content \in Contents
    /\ \A i \in 1..Len(Searches) : Searches[i].text \in Texts

\* ------------------------------------------------------------ the store
\* a first Database() on an empty file: both tables are created empty
Init ==
    /\ Pages = <<>>
    /\ Searches = <<>>
    /\ now = 0
    /\ ret = ReturnedNone("Database", <<>>, <<>>)
    /\ lastSaved = [n \in Names |-> <<>>]

\* the clock advances between two calls
Tick ==
    /\ \E t \in ClockInstants : t > now /\ now' = t
    /\ ret' = ReturnedNone("Tick", <<>>, <<>>)
    /\ UNCHANGED <<Pages, Searches>>

\* mutant of save_search: a text that is in the table is not saved again
save_search_Unique(search, DB_SAVE_SEARCHES) ==
    IF DB_SAVE_SEARCHES = FALSE
           \/ \E i \in 1..Len(Searches) : Searches[i].text = search
    THEN /\ ret' = ReturnedNone("save_search", <<search>>, <<DB_SAVE_SEARCHES>>)
         /\ UNCHANGED <<Pages, Searches, now>>
    ELSE /\ Len(Searches) < MaxSearches
         /\ Searches' = Append(Searches,
                [id |-> NextRowid(Searches), text |-> search, datetime |-> DATETIME_now])
         /\ ret' = ReturnedNone("save_search", <<search>>, <<DB_SAVE_SEARCHES>>)
         /\ UNCHANGED <<Pages, now>>

\* DB_SAVE_SEARCHES is the value of config.DB_SAVE_SEARCHES the call reads
save_search(search, DB_SAVE_SEARCHES) ==
    IF DB_SAVE_SEARCHES = FALSE
    THEN /\ ret' = ReturnedNone("save_search", <<search>>, <<DB_SAVE_SEARCHES>>)
         /\ UNCHANGED <<Pages, Searches, now>>
    ELSE /\ Len(Searches) < MaxSearches
         /\ Searches' = Append(Searches,
                [id |-> NextRowid(Searches), text |-> search, datetime |-> DATETIME_now])
         /\ ret' = ReturnedNone("save_search", <<search>>, <<DB_SAVE_SEARCHES>>)
         /\ UNCHANGED <<Pages, now>>

\* the rows of a fetch as the tuples of "SELECT id, name, datetime"
PageTuples(rows) == [i \in 1..Len(rows) |-> <<rows[i].id, rows[i].name, rows[i].datetime>>]

\* the rows of a fetch as the tuples of "SELECT id, text, datetime"
SearchTuples(rows) == [i \in 1..Len(rows) |-> <<rows[i].id, rows[i].text, rows[i].datetime>>]

\* mutant of get_saved_pages: the guard is "limit < 0"
get_saved_pages_NegativeOnly(limit) ==
    /\ ret' = IF limit = <<>>
              THEN Returned("get_saved_pages", limit, <<>>, PageTuples(OrderByIdAsc(Pages)))
              ELSE IF limit[1] < 0
              THEN Raised("get_saved_pages", limit, <<>>, "ValueError")
              ELSE Raised("get_saved_pages", limit, <<>>, "OperationalError")
    /\ UNCHANGED <<Pages, Searches, now>>

\* limit is <<>> when the argument is omitted (None), <<n>> otherwise
get_saved_pages(limit) ==
    /\ ret' = IF limit = <<>>
              THEN Returned("get_saved_pages", limit, <<>>, PageTuples(OrderByIdAsc(Pages)))
              ELSE IF limit[1] <= 0
              THEN Raised("get_saved_pages", limit, <<>>, "ValueError")
              \* "SELECT P.id, S.name FROM Pages P ...": there is no table S
              \* in the statement, sqlite3 rejects it when it is prepared
              ELSE Raised("get_saved_pages", limit, <<>>, "OperationalError")
    /\ UNCHANGED <<Pages, Searches, now>>

\* mutant of get_saved_searches: the limited fetch is ordered by id ASC
get_saved_searches_LimitAsc(limit) ==
    /\ ret' = IF limit = <<>>
              THEN Returned("get_saved_searches", limit, <<>>, SearchTuples(OrderByIdAsc(Searches)))
              ELSE IF limit[1] <= 0
              THEN Raised("get_saved_searches", limit, <<>>, "ValueError")
              ELSE Returned("get_saved_searches", limit, <<>>,
                            SearchTuples(LimitRows(OrderByIdAsc(Searches), limit[1])))
    /\ UNCHANGED <<Pages, Searches, now>>

get_saved_searches(limit) ==
    /\ ret' = IF limit = <<>>
              THEN Returned("get_saved_searches", limit, <<>>, SearchTuples(OrderByIdAsc(Searches)))
              ELSE IF limit[1] <= 0
              THEN Raised("get_saved_searches", limit, <<>>, "ValueError")
              ELSE Returned("get_saved_searches", limit, <<>>,
                            SearchTuples(LimitRows(OrderByIdDesc(Searches), limit[1])))
    /\ UNCHANGED <<Pages, Searches, now>>

\* mutant of clear_searches: the statement is "DELETE FROM Pages"
clear_searches_DeletesPages ==
    /\ Pages' = <<>>
    /\ ret' = ReturnedNone("clear_searches", <<>>, <<>>)
    /\ UNCHANGED <<Searches, now>>

clear_searches ==
    /\ Searches' = <<>>
    /\ ret' = ReturnedNone("clear_searches", <<>>, <<>>)
    /\ UNCHANGED <<Pages, now>>

\* the statement is "DELETE FROM Searches"
clear_saved_pages ==
    /\ Searches' = <<>>
    /\ ret' = ReturnedNone("clear_saved_pages", <<>>, <<>>)
    /\ UNCHANGED <<Pages, now>>

\* mutant of UpdateByName: the UPDATE has no WHERE clause
UpdateByName_AllRows(name, content) ==
    [i \in 1..Len(Pages) |->
        [Pages[i] EXCEPT !.content = content, !.datetime = DATETIME_now]]

\* UPDATE Pages SET content = ?, datetime = ... WHERE name = ?
UpdateByName(name, content) ==
    [i \in 1..Len(Pages) |->
        IF Pages[i].name = name
        THEN [Pages[i] EXCEPT !.content = content, !.datetime = DATETIME_now]
        ELSE Pages[i]]

\* mutant of save_page: the name is not UNIQUE, the INSERT always succeeds
save_page_AlwaysInsert(page_title, page_text, DB_SAVE_PAGES) ==
    IF DB_SAVE_PAGES = FALSE
    THEN /\ ret' = ReturnedNone("save_page", <<page_title, page_text>>, <<DB_SAVE_PAGES>>)
         /\ UNCHANGED <<Pages, Searches, now>>
    ELSE /\ Pages' = Append(Pages, [id |-> NextRowid(Pages), name |-> page_title,
                                    content |-> page_text, datetime |-> DATETIME_now])
         /\ ret' = ReturnedNone("save_page", <<page_title, page_text>>, <<DB_SAVE_PAGES>>)
         /\ UNCHANGED <<Searches, now>>

\* mutant of save_page: the page is saved whatever DB_SAVE_PAGES is
save_page_IgnoresFlag(page_title, page_text, DB_SAVE_PAGES) ==
    /\ Pages' = IF SelectByName(page_title) = <<>>
                THEN Append(Pages, [id |-> NextRowid(Pages), name |-> page_title,
                                    content |-> page_text, datetime |-> DATETIME_now])
                ELSE UpdateByName(page_title, page_text)
    /\ ret' = ReturnedNone("save_page", <<page_title, page_text>>, <<DB_SAVE_PAGES>>)
    /\ UNCHANGED <<Searches, now>>

\* DB_SAVE_PAGES is the value of config.DB_SAVE_PAGES the call reads
save_page(page_title, page_text, DB_SAVE_PAGES) ==
    IF DB_SAVE_PAGES = FALSE
    THEN /\ ret' = ReturnedNone("save_page", <<page_title, page_text>>, <<DB_SAVE_PAGES>>)
         /\ UNCHANGED <<Pages, Searches, now>>
    ELSE /\ Pages' = IF SelectByName(page_title) = <<>>
                     THEN Append(Pages, [id |-> NextRowid(Pages), name |-> page_title,
                                         content |-> page_text, datetime |-> DATETIME_now])
                     \* sqlite3.IntegrityError: name is UNIQUE
                     ELSE UpdateByName(page_title, page_text)
         /\ ret' = ReturnedNone("save_page", <<page_title, page_text>>, <<DB_SAVE_PAGES>>)
         /\ UNCHANGED <<Searches, now>>

\* (datetime.now() - date).seconds: the seconds field of the timedelta,
\* which is normalised to days and 0 <= seconds < 86400
timedelta_seconds(date) == (now - date) % SecondsPerDay

\* mutant of PageNeedsUpdate: the comparison is ">="
PageNeedsUpdate_AtThreshold(date) == timedelta_seconds(date) >= expiration_time

\* the value page_needs_update returns for a datetime
PageNeedsUpdate(date) == timedelta_seconds(date) > expiration_time

\* page_needs_update called on its own
page_needs_update(date) ==
    /\ ret' = Returned("page_needs_update", <<date>>, <<>>, PageNeedsUpdate(date))
    /\ UNCHANGED <<Pages, Searches, now>>

\* WikiParser(content, name): the page object with that title and text
WikiParser(content, name) == [page_title |-> name, page_text |-> content]

\* DB_USE_SAVED_PAGES is the value of config.DB_USE_SAVED_PAGES the call reads
\* mutant of LoadPage: the store is read whatever DB_USE_SAVED_PAGES is
LoadPage_IgnoresFlag(page_name, DB_USE_SAVED_PAGES) ==
    LET page == SelectByName(page_name)
    IN  IF page = <<>>
        THEN ReturnedNone("load_page", <<page_name>>, <<DB_USE_SAVED_PAGES>>)
        ELSE IF PageNeedsUpdate(fromisoformat(page[1].datetime))
        THEN ReturnedNone("load_page", <<page_name>>, <<DB_USE_SAVED_PAGES>>)
        ELSE Returned("load_page", <<page_name>>, <<DB_USE_SAVED_PAGES>>,
                      WikiParser(page[1].content, page[1].name))

\* the outcome of load_page
LoadPage(page_name, DB_USE_SAVED_PAGES) ==
    IF DB_USE_SAVED_PAGES = FALSE
    THEN ReturnedNone("load_page", <<page_name>>, <<DB_USE_SAVED_PAGES>>)
    ELSE LET page == SelectByName(page_name)
         IN  IF page = <<>>
             THEN ReturnedNone("load_page", <<page_name>>, <<DB_USE_SAVED_PAGES>>)
             ELSE IF PageNeedsUpdate(fromisoformat(page[1].datetime))
             THEN ReturnedNone("load_page", <<page_name>>, <<DB_USE_SAVED_PAGES>>)
             ELSE Returned("load_page", <<page_name>>, <<DB_USE_SAVED_PAGES>>,
                           WikiParser(page[1].content, page[1].name))

\* mutant of load_page: a row found stale is deleted
load_page_DeletesStale(page_name, DB_USE_SAVED_PAGES) ==
    /\ ret' = LoadPage(page_name, DB_USE_SAVED_PAGES)
    /\ Pages' = IF DB_USE_SAVED_PAGES
                THEN SelectSeq(Pages, LAMBDA r :
                        r.name # page_name \/ ~PageNeedsUpdate(fromisoformat(r.datetime)))
                ELSE Pages
    /\ UNCHANGED <<Searches, now>>

load_page(page_name, DB_USE_SAVED_PAGES) ==
    /\ ret' = LoadPage(page_name, DB_USE_SAVED_PAGES)
    /\ UNCHANGED <<Pages, Searches, now>>

\* mutant of Database: the tables are dropped and created anew
Database_Recreates ==
    /\ Pages' = <<>>
    /\ Searches' = <<>>
    /\ ret' = ReturnedNone("Database", <<>>, <<>>)
    /\ UNCHANGED now

\* Database() on the existing file, in a later run of the program: both
\* CREATE TABLE statements raise sqlite3.OperationalError, which is passed
\* over
Database ==
    /\ ret' = ReturnedNone("Database", <<>>, <<>>)
    /\ UNCHANGED <<Pages, Searches, now>>

LimitArgs == {<<>>} \cup { <<n>> : n \in Limits }

\* history of the saves: a save_page call that read DB_SAVE_PAGES = TRUE
\* is recorded with its text and its instant
RecordSave(page_title, page_text, DB_SAVE_PAGES) ==
    lastSaved' = IF DB_SAVE_PAGES
                 THEN [lastSaved EXCEPT ![page_title] = <<page_text, now>>]
                 ELSE lastSaved

Next ==
    \/ Tick /\ UNCHANGED lastSaved
    \/ Database /\ UNCHANGED lastSaved
    \/ \E search \in Texts, flag \in BOOLEAN :
            save_search(search, flag) /\ UNCHANGED lastSaved
    \/ \E limit \in LimitArgs : get_saved_pages(limit) /\ UNCHANGED lastSaved
    \/ \E limit \in LimitArgs : get_saved_searches(limit) /\ UNCHANGED lastSaved
    \/ clear_searches /\ UNCHANGED lastSaved
    \/ clear_saved_pages /\ UNCHANGED lastSaved
    \/ \E t \in Names, c \in Contents, flag \in BOOLEAN :
            save_page(t, c, flag) /\ RecordSave(t, c, flag)
    \/ \E date \in { d \in ClockInstants : d <= now } :
            page_needs_update(date) /\ UNCHANGED lastSaved
    \/ \E name \in Names, flag \in BOOLEAN :
            load_page(name, flag) /\ UNCHANGED lastSaved

Spec == Init /\ [][Next]_vars

\* ------------------------------------------------------------- claims
Min(a, b) == IF a < b THEN a ELSE b

\* the rows of Pages named name
NamedRows(table, name) == SelectSeq(table, LAMBDA r : r.name = name)

UniqueNames ==
    \A i, j \in 1..Len(Pages) : Pages[i].name = Pages[j].name => i = j

UpsertStep ==
    (/\ ret'.op = "save_page"
     /\ ret'.cfg = <<TRUE>>
     /\ NamedRows(Pages, ret'.arg[1]) # <<>>)
    => /\ Len(Pages') = Len(Pages)
       /\ Len(NamedRows(Pages', ret'.arg[1])) = 1
       /\ NamedRows(Pages', ret'.arg[1])[1].id = NamedRows(Pages, ret'.arg[1])[1].id
       /\ NamedRows(Pages', ret'.arg[1])[1].content = ret'.arg[2]

\* C1: the Pages table never holds two rows of the same name, and a
\* save_page that reads DB_SAVE_PAGES = TRUE for a name that has a row adds
\* no row, keeps that row's id and sets its content to the saved text
C1_Upsert == []UniqueNames /\ [][UpsertStep]_vars

\* a save of the name of the first row, made after a second row existed and
\* at a later instant than that row's save
C1_Witness ==
    /\ ret.op = "save_page"
    /\ ret.cfg = <<TRUE>>
    /\ Len(Pages) = 2
    /\ Pages[1].name = ret.arg[1]
    /\ Pages[1].content = ret.arg[2]
    /\ Pages[1].id = 1
    /\ fromisoformat(Pages[1].datetime) > fromisoformat(Pages[2].datetime)

\* C2: page_needs_update(saved_at) returns true exactly when the elapsed
\* time now - saved_at, in whole seconds, is greater than the expiration
\* threshold, ages of a day or more included
C2_StaleIffElapsedExceeds ==
    ret.op = "page_needs_update"
        => ret.val = (now - ret.arg[1] > expiration_time)

\* C3: with DB_USE_SAVED_PAGES enabled, load_page of a name whose latest
\* save is older than the expiration threshold returns None, at every
\* instant until the name is saved again
C3_StaleStaysUnloadable ==
    (/\ ret.op = "load_page"
     /\ ret.cfg = <<TRUE>>
     /\ lastSaved[ret.arg[1]] # <<>>
     /\ now - lastSaved[ret.arg[1]][2] > expiration_time)
    => ret.status = "None"

\* C4: with both flags enabled, load_page of a name whose latest save is
\* no older than the expiration threshold returns a page with the title and
\* the text of that save
C4_RoundTrip ==
    (/\ ret.op = "load_page"
     /\ ret.cfg = <<TRUE>>
     /\ lastSaved[ret.arg[1]] # <<>>
     /\ now - lastSaved[ret.arg[1]][2] <= expiration_time)
    => /\ ret.status = "value"
       /\ ret.val.page_title = ret.arg[1]
       /\ ret.val.page_text = lastSaved[ret.arg[1]][1]

\* a load, at the threshold age exactly, of the second page saved
C4_Witness ==
    /\ ret.op = "load_page"
    /\ ret.cfg = <<TRUE>>
    /\ ret.status = "value"
    /\ lastSaved[ret.arg[1]] # <<>>
    /\ now - lastSaved[ret.arg[1]][2] = expiration_time
    /\ Len(Pages) = 2
    /\ Pages[2].name = ret.arg[1]

\* C5: after clear_saved_pages() the Pages table is empty
C5_ClearEmptiesPages ==
    ret.op = "clear_saved_pages"
        => /\ Pages = <<>>
           /\ \A n \in Names : LoadPage(n, TRUE).status = "None"

\* the ids of a fetch, in the order of the fetch
FetchedIds(tuples) == [i \in 1..Len(tuples) |-> tuples[i][1]]

\* the ids of the rows of a table, in the order of insertion
InsertedIds(table) == [i \in 1..Len(table) |-> table[i].id]

\* the names of the rows fetched, in the order of the fetch
FetchedNames(tuples) == [i \in 1..Len(tuples) |-> tuples[i][2]]

\* C6: get_saved_pages() returns every Page record by ascending id, the
\* order in which the names were first saved; get_saved_pages(limit = n),
\* n > 0, returns the min(n, count) records created last, by descending id
C6_PagesOrdering ==
    ret.op = "get_saved_pages" =>
        IF ret.arg = <<>>
        THEN /\ ret.status = "value"
             /\ FetchedIds(ret.val) = InsertedIds(Pages)
             /\ FetchedNames(ret.val) = [i \in 1..Len(Pages) |-> Pages[i].name]
        ELSE ret.arg[1] > 0 =>
             /\ ret.status = "value"
             /\ Len(ret.val) = Min(ret.arg[1], Len(Pages))
             /\ \A i \in 1..Len(ret.val) :
                    /\ ret.val[i][1] = Pages[Len(Pages) + 1 - i].id
                    /\ ret.val[i][2] = Pages[Len(Pages) + 1 - i].name

DisabledSaveStep ==
    (ret'.op = "save_page" /\ ret'.cfg = <<FALSE>>) =>
        /\ Pages' = Pages
        /\ Searches' = Searches

\* C8: a save_page that reads DB_SAVE_PAGES = FALSE leaves Pages and
\* Searches unchanged, and load_page with DB_USE_SAVED_PAGES enabled finds
\* no name that was never saved with DB_SAVE_PAGES enabled
C8_DisabledSaveIsNoOp ==
    /\ [][DisabledSaveStep]_vars
    /\ [](\A n \in Names : lastSaved[n] = <<>> => LoadPage(n, TRUE).status = "None")

\* a gated-off save of a name that has no row, in a store that has rows
C8_Witness ==
    /\ ret.op = "save_page"
    /\ ret.cfg = <<FALSE>>
    /\ lastSaved[ret.arg[1]] = <<>>
    /\ Pages # <<>>
    /\ Searches # <<>>

\* C9: a load_page that reads DB_USE_SAVED_PAGES = FALSE returns None,
\* whatever the store holds
C9_DisabledLoadNotFound ==
    (ret.op = "load_page" /\ ret.cfg = <<FALSE>>) => ret.status = "None"

\* a gated-off load of a page that was saved and has not expired
C9_Witness ==
    /\ ret.op = "load_page"
    /\ ret.cfg = <<FALSE>>
    /\ NamedRows(Pages, ret.arg[1]) # <<>>
    /\ now - fromisoformat(NamedRows(Pages, ret.arg[1])[1].datetime) <= expiration_time
    /\ LoadPage(ret.arg[1], TRUE).status = "value"

InvalidLimitStep ==
    (/\ ret'.op \in {"get_saved_pages", "get_saved_searches"}
     /\ ret'.arg # <<>>
     /\ ret'.arg[1] <= 0)
    => /\ ret'.status = "ValueError"
       /\ Pages' = Pages
       /\ Searches' = Searches

\* C10: get_saved_pages(limit) and get_saved_searches(limit) with
\* limit <= 0 raise ValueError and leave the store unchanged
C10_InvalidLimit == [][InvalidLimitStep]_vars

\* a fetch with limit 0 from a store that has rows of both kinds
C10_Witness ==
    /\ ret.op = "get_saved_pages"
    /\ ret.arg = <<0>>
    /\ ret.status = "ValueError"
    /\ Pages # <<>>
    /\ Searches # <<>>

SaveSearchStep ==
    ret'.op = "save_search" =>
        IF ret'.cfg = <<FALSE>>
        THEN Searches' = Searches
        ELSE /\ Len(Searches') = Len(Searches) + 1
             /\ SubSeq(Searches', 1, Len(Searches)) = Searches
             /\ Searches'[Len(Searches')].text = ret'.arg[1]
             /\ Searches'[Len(Searches')].id \notin RowIds(Searches)

\* C11: a save_search that reads DB_SAVE_SEARCHES = FALSE leaves Searches
\* unchanged; one that reads TRUE appends exactly one record with the text
\* of the call, also when a record with that text is in the table
C11_SaveSearchAppends == [][SaveSearchStep]_vars

\* an enabled save of a text that the table already held
C11_Witness ==
    /\ ret.op = "save_search"
    /\ ret.cfg = <<TRUE>>
    /\ Len(Searches) = 2
    /\ Searches[1].text = ret.arg[1]
    /\ Searches[2].text = ret.arg[1]

\* C12: get_saved_pages() and get_saved_searches() return None when the
\* table has no record, and a list only when it has at least one
C12_NoRecordsGivesNone ==
    /\ (ret.op = "get_saved_pages" /\ ret.arg = <<>>)
           => (ret.status = "None" <=> Pages = <<>>)
    /\ (ret.op = "get_saved_searches" /\ ret.arg = <<>>)
           => (ret.status = "None" <=> Searches = <<>>)

LoadPageStep ==
    ret'.op = "load_page" => (Pages' = Pages /\ Searches' = Searches)

\* C13: load_page leaves Pages and Searches as they were, for every name,
\* flag value and instant; a record it finds stale stays in the table
C13_LoadPageReadsOnly == [][LoadPageStep]_vars

\* a load that found a stale record, which get_saved_pages() still lists
C13_Witness ==
    /\ ret.op = "load_page"
    /\ ret.cfg = <<TRUE>>
    /\ ret.status = "None"
    /\ NamedRows(Pages, ret.arg[1]) # <<>>
    /\ PageNeedsUpdate(fromisoformat(NamedRows(Pages, ret.arg[1])[1].datetime))
    /\ \E i \in 1..Len(Pages) :
            PageTuples(OrderByIdAsc(Pages))[i][2] = ret.arg[1]

\* the names that have a row in Pages
PageNames(table) == { table[i].name : i \in 1..Len(table) }

OnlyOwnClearDestroysStep ==
    /\ ret'.op # "clear_saved_pages" => PageNames(Pages) \subseteq PageNames(Pages')
    /\ ret'.op # "clear_searches" => Len(Searches') >= Len(Searches)

\* C14: Page records are destroyed by clear_saved_pages only and Search
\* records by clear_searches only: in every other step the set of names in
\* Pages and the number of rows of Searches do not shrink
C14_OnlyOwnClearDestroys == [][OnlyOwnClearDestroysStep]_vars

ClearSearchesStep ==
    ret'.op = "clear_searches" => (Searches' = <<>> /\ Pages' = Pages)

\* C15: clear_searches() removes every Search record and leaves every Page
\* record as it was
C15_ClearSearches == [][ClearSearchesStep]_vars

\* a store cleared of its searches that holds two pages
C15_Witness ==
    /\ ret.op = "clear_searches"
    /\ Searches = <<>>
    /\ Len(Pages) = 2
    /\ Pages[1].content # Pages[2].content

\* C16: clear_saved_pages() leaves the Searches table as it was
C16_ClearPagesKeepsSearches ==
    [][ret'.op = "clear_saved_pages" => Searches' = Searches]_vars

ReinitStep ==
    ret'.op = "Database" =>
        /\ ret'.status = "None"
        /\ Pages' = Pages
        /\ Searches' = Searches
        /\ \A n \in Names : LoadPage(n, TRUE)' = LoadPage(n, TRUE)

\* C17: Database() on a file that is already initialised raises nothing and
\* keeps every Page and Search record, so that load_page finds after it
\* what it found before it
C17_ReinitPreserves == [][ReinitStep]_vars

\* a later run on a store that holds searches and a loadable page
C17_Witness ==
    /\ ret.op = "Database"
    /\ ret.status = "None"
    /\ Searches # <<>>
    /\ now > 0
    /\ \E n \in Names : LoadPage(n, TRUE).status = "value"

SavePageFrameStep ==
    (ret'.op = "save_page" /\ ret'.cfg = <<TRUE>>) =>
        /\ Searches' = Searches
        /\ \A i \in 1..Len(Pages) :
               Pages[i].name # ret'.arg[1]
                   => \E j \in 1..Len(Pages') : Pages'[j] = Pages[i]
        /\ \A j \in 1..Len(Pages') :
               Pages'[j].name # ret'.arg[1]
                   => \E i \in 1..Len(Pages) : Pages[i] = Pages'[j]

SaveSearchFrameStep ==
    ret'.op = "save_search" => Pages' = Pages

\* C18: a save_page that reads DB_SAVE_PAGES = TRUE changes no Page row of
\* another name (id, content and timestamp stay) and leaves Searches as it
\* was; save_search leaves Pages as it was
C18_SaveFrames == [][SavePageFrameStep /\ SaveSearchFrameStep]_vars

\* an upsert made later than the save of the other page, with searches
\* in the store
C18_Witness ==
    /\ ret.op = "save_page"
    /\ ret.cfg = <<TRUE>>
    /\ Len(Pages) = 2
    /\ Searches # <<>>
    /\ Pages[1].name = ret.arg[1]
    /\ Pages[1].datetime = DATETIME_now
    /\ Pages[2].datetime # DATETIME_now
    /\ Pages[2].content # ret.arg[2]

====
